---- MODULE Spec2Model ----
(***************************************************************************)
(* Model of the align-address crate (src/src/lib.rs): the four free        *)
(* functions generated by align_impl! for an unsigned integer type, and    *)
(* the Align trait implemented on top of them.                             *)
(*                                                                         *)
(* The functions are pure.  The state machine draws a type (its width in   *)
(* bits), an address and an alignment, and then performs one call; the     *)
(* outcome of the call (returned value, Option, bool or panic) is stored   *)
(* in `result`.                                                            *)
(***************************************************************************)
EXTENDS Integers, FiniteSets, Sequences, TLC

VARIABLES bits, addr, align, op, result

vars == <<bits, addr, align, op, result>>

(***************************************************************************)
(* Integer types.                                                          *)
(***************************************************************************)
\* u8::BITS and u16::BITS, the two instantiations of align_impl! whose
\* values fit the model checker's integers.
U8_BITS == 8
U16_BITS == 16

\* How far around 0, every power of two and MAX the u16 inputs are drawn.
Span == 2

RECURSIVE Pow2(_)
Pow2(n) == IF n = 0 THEN 1 ELSE 2 * Pow2(n - 1)

\* <$u>::MAX
MAX(w) == Pow2(w) - 1

(***************************************************************************)
(* Machine arithmetic at width w.                                          *)
(***************************************************************************)
\* a & b
RECURSIVE BitAnd(_, _, _)
BitAnd(w, a, b) ==
    IF w = 0 THEN 0
    ELSE (IF a % 2 = 1 /\ b % 2 = 1 THEN 1 ELSE 0)
         + 2 * BitAnd(w - 1, a \div 2, b \div 2)

\* a | b
RECURSIVE BitOr(_, _, _)
BitOr(w, a, b) ==
    IF w = 0 THEN 0
    ELSE (IF a % 2 = 1 \/ b % 2 = 1 THEN 1 ELSE 0)
         + 2 * BitOr(w - 1, a \div 2, b \div 2)

\* !a
RECURSIVE BitNot(_, _)
BitNot(w, a) ==
    IF w = 0 THEN 0
    ELSE (IF a % 2 = 1 THEN 0 ELSE 1) + 2 * BitNot(w - 1, a \div 2)

\* a.count_ones()
RECURSIVE count_ones(_, _)
count_ones(w, a) ==
    IF w = 0 THEN 0 ELSE (a % 2) + count_ones(w - 1, a \div 2)

\* a - b in the type of width w.
Sub(w, a, b) == (a - b + Pow2(w)) % Pow2(w)

(***************************************************************************)
(* Outcomes of a call.                                                     *)
(***************************************************************************)
NoCall == [kind |-> "nocall", val |-> 0, msg |-> ""]
Value(x) == [kind |-> "value", val |-> x, msg |-> ""]
Some(x) == [kind |-> "Some", val |-> x, msg |-> ""]
None == [kind |-> "None", val |-> 0, msg |-> ""]
Bool(b) == [kind |-> "bool", val |-> IF b THEN 1 ELSE 0, msg |-> ""]
Panic(m) == [kind |-> "panic", val |-> 0, msg |-> m]

\* The panic messages: the one of the assert! on the alignment (the source
\* writes align between backquotes) and the one of an overflowing round-up.
MsgAlign == "align must be a power of two"
MsgOverflow == "attempt to add with overflow"

\* a.checked_add(b)
checked_add(w, a, b) == IF a + b > MAX(w) THEN None ELSE Some(a + b)

\* A power-of-two test that forgets zero: a & (a - 1) == 0.
is_power_of_two_zero(w, a) == BitAnd(w, a, Sub(w, a, 1)) = 0

\* a.is_power_of_two()
is_power_of_two(w, a) == count_ones(w, a) = 1

(***************************************************************************)
(* The free functions of align_impl!.                                      *)
(***************************************************************************)
\* align_down masking with !align instead of !(align - 1).
u_align_down_mask(w, a, al) ==
    IF ~is_power_of_two(w, al)
    THEN Panic(MsgAlign)
    ELSE Value(BitAnd(w, a, BitNot(w, al)))

\* $align_down
u_align_down(w, a, al) ==
    IF ~is_power_of_two(w, al)
    THEN Panic(MsgAlign)
    ELSE Value(BitAnd(w, a, BitNot(w, Sub(w, al, 1))))

\* checked_align_up without the already-aligned early return.
u_checked_align_up_noshort(w, a, al) ==
    IF ~is_power_of_two(w, al)
    THEN Panic(MsgAlign)
    ELSE checked_add(w, BitOr(w, a, Sub(w, al, 1)), 1)

\* checked_align_up with a wrapping addition instead of checked_add.
u_checked_align_up_wrapping(w, a, al) ==
    IF ~is_power_of_two(w, al)
    THEN Panic(MsgAlign)
    ELSE LET align_mask == Sub(w, al, 1)
         IN  IF BitAnd(w, a, align_mask) = 0
             THEN Some(a)
             ELSE Some((BitOr(w, a, align_mask) + 1) % Pow2(w))

\* $checked_align_up
u_checked_align_up(w, a, al) ==
    IF ~is_power_of_two(w, al)
    THEN Panic(MsgAlign)
    ELSE LET align_mask == Sub(w, al, 1)
         IN  IF BitAnd(w, a, align_mask) = 0
             THEN Some(a)
             ELSE checked_add(w, BitOr(w, a, align_mask), 1)

\* align_up that yields the wrapped-around value on overflow.
u_align_up_wrapping(w, a, al) ==
    LET r == u_checked_align_up(w, a, al)
    IN  IF r.kind = "panic" THEN r
        ELSE IF r.kind = "Some" THEN Value(r.val)
        ELSE Value(0)

\* $align_up
u_align_up(w, a, al) ==
    LET r == u_checked_align_up(w, a, al)
    IN  IF r.kind = "panic" THEN r
        ELSE IF r.kind = "Some" THEN Value(r.val)
        ELSE Panic(MsgOverflow)

\* is_aligned_to testing addr & align instead of rounding down.
u_is_aligned_to_and(w, a, al) ==
    LET r == u_align_down(w, a, al)
    IN  IF r.kind = "panic" THEN r ELSE Bool(BitAnd(w, a, al) = 0)

\* $is_aligned_to
u_is_aligned_to(w, a, al) ==
    LET r == u_align_down(w, a, al)
    IN  IF r.kind = "panic" THEN r ELSE Bool(r.val = a)

(***************************************************************************)
(* impl Align for $u, and the default methods of the trait.                *)
(***************************************************************************)
\* Option::expect
expect(r, m) ==
    IF r.kind = "panic" THEN r
    ELSE IF r.kind = "Some" THEN Value(r.val)
    ELSE Panic(m)

\* <$u as Align>::align_down
Align_align_down(w, self, al) == u_align_down(w, self, al)

\* <$u as Align>::checked_align_up
Align_checked_align_up(w, self, al) == u_checked_align_up(w, self, al)

\* A trait align_up that falls back to the default value on None.
Align_align_up_default(w, self, al) ==
    LET r == Align_checked_align_up(w, self, al)
    IN  IF r.kind = "panic" THEN r
        ELSE IF r.kind = "Some" THEN Value(r.val)
        ELSE Value(0)

\* Align::align_up (default method)
Align_align_up(w, self, al) ==
    expect(Align_checked_align_up(w, self, al), MsgOverflow)

\* Align::is_aligned_to (default method)
Align_is_aligned_to(w, self, al) ==
    LET r == Align_align_down(w, self, al)
    IN  IF r.kind = "panic" THEN r ELSE Bool(r.val = self)

(***************************************************************************)
(* Inputs.                                                                 *)
(***************************************************************************)
Widths == {U8_BITS, U16_BITS}

\* Values within Span of 0, of a power of two, or of MAX.
Near(w) ==
    LET around == UNION {{Pow2(k) - d, Pow2(k) + d, d} :
                            <<k, d>> \in (0..w) \X (0..Span)}
    IN  {v \in around : 0 <= v /\ v <= MAX(w)}

\* Every value of u8; the boundary values of u16.
Inputs(w) == IF w = U8_BITS THEN 0..MAX(w) ELSE Near(w)

Init ==
    /\ bits \in Widths
    /\ addr \in Inputs(bits)
    /\ align \in Inputs(bits)
    /\ op = "none"
    /\ result = NoCall

Call(name, r) ==
    /\ op = "none"
    /\ op' = name
    /\ result' = r
    /\ UNCHANGED <<bits, addr, align>>

CallAlignDown == Call("u_align_down", u_align_down(bits, addr, align))
CallCheckedAlignUp ==
    Call("u_checked_align_up", u_checked_align_up(bits, addr, align))
CallAlignUp == Call("u_align_up", u_align_up(bits, addr, align))
CallIsAlignedTo == Call("u_is_aligned_to", u_is_aligned_to(bits, addr, align))
CallTraitAlignDown ==
    Call("Align::align_down", Align_align_down(bits, addr, align))
CallTraitCheckedAlignUp ==
    Call("Align::checked_align_up", Align_checked_align_up(bits, addr, align))
CallTraitAlignUp == Call("Align::align_up", Align_align_up(bits, addr, align))
CallTraitIsAlignedTo ==
    Call("Align::is_aligned_to", Align_is_aligned_to(bits, addr, align))

Next ==
    \/ CallAlignDown
    \/ CallCheckedAlignUp
    \/ CallAlignUp
    \/ CallIsAlignedTo
    \/ CallTraitAlignDown
    \/ CallTraitCheckedAlignUp
    \/ CallTraitAlignUp
    \/ CallTraitIsAlignedTo

Spec == Init /\ [][Next]_vars

TypeOK ==
    /\ bits \in Widths
    /\ addr \in 0..MAX(bits)
    /\ align \in 0..MAX(bits)
    /\ result.val \in 0..MAX(bits)

(***************************************************************************)
(* Properties.  Alignment is stated arithmetically (multiples), never by   *)
(* the bit operations the code uses.                                       *)
(***************************************************************************)
IsPow2(w, x) == \E k \in 0..(w - 1) : x = Pow2(k)
IsMultiple(x, a) == x % a = 0

AlignDownOps == {"u_align_down", "Align::align_down"}
CheckedAlignUpOps == {"u_checked_align_up", "Align::checked_align_up"}
AlignUpOps == {"u_align_up", "Align::align_up"}
IsAlignedToOps == {"u_is_aligned_to", "Align::is_aligned_to"}

\* C1: for a power-of-two align, align_down returns the greatest multiple
\* of align that is <= addr: it is <= addr, a multiple of align, and no
\* multiple of align lies strictly between it and addr (or at addr).
C1_AlignDownGreatest ==
    (op \in AlignDownOps /\ IsPow2(bits, align)) =>
        /\ result.kind = "value"
        /\ result.val <= addr
        /\ IsMultiple(result.val, align)
        /\ \A x \in (result.val + 1)..addr : ~IsMultiple(x, align)

C1_Witness ==
    /\ op = "u_align_down"
    /\ IsPow2(bits, align)
    /\ align > 2
    /\ ~IsMultiple(addr, align)
    /\ result.kind = "value"
    /\ 0 < result.val /\ result.val < addr

\* C2: for a power-of-two align, when some multiple of align exists in
\* addr..MAX, checked_align_up returns Some(x) with x the smallest multiple
\* of align that is >= addr.
C2_CheckedAlignUpSmallest ==
    (/\ op \in CheckedAlignUpOps
     /\ IsPow2(bits, align)
     /\ \E x \in addr..MAX(bits) : IsMultiple(x, align)) =>
        /\ result.kind = "Some"
        /\ result.val >= addr
        /\ IsMultiple(result.val, align)
        /\ \A x \in addr..(result.val - 1) : ~IsMultiple(x, align)

C2_Witness ==
    /\ op = "u_checked_align_up"
    /\ bits = U8_BITS /\ addr = 123 /\ align = 2
    /\ result = Some(124)

\* C3: for a power-of-two align, checked_align_up returns None exactly when
\* addr is not a multiple of align and MAX - addr < align; and when it
\* returns None no multiple of align exists in addr..MAX.
C3_NoneExactlyOnOverflow ==
    (op \in CheckedAlignUpOps /\ IsPow2(bits, align)) =>
        /\ result.kind \in {"Some", "None"}
        /\ (result.kind = "None") <=>
               (~IsMultiple(addr, align) /\ MAX(bits) - addr < align)
        /\ (result.kind = "None") =>
               ~\E x \in addr..MAX(bits) : IsMultiple(x, align)

C3_Witness ==
    /\ op = "u_checked_align_up"
    /\ addr = MAX(bits) /\ align = 2
    /\ result = None

\* C4: for an align that is not a power of two (zero included) every
\* operation panics with the alignment assertion and returns no value,
\* whatever addr is.
C4_InvalidAlignPanics ==
    (op # "none" /\ ~IsPow2(bits, align)) =>
        result.kind = "panic" /\ result.msg = MsgAlign

C4_Witness ==
    /\ op = "u_checked_align_up"
    /\ addr = 0 /\ align = 0
    /\ result = Panic(MsgAlign)

\* C5: for a power-of-two align, align_up returns x when checked_align_up
\* gives Some(x) and panics when it gives None; a returned value is never
\* below addr (no wrap-around).
C5_AlignUpUnwraps ==
    (op \in AlignUpOps /\ IsPow2(bits, align)) =>
        LET c == u_checked_align_up(bits, addr, align)
        IN  /\ c.kind = "Some" => result = Value(c.val)
            /\ c.kind = "None" => result = Panic(MsgOverflow)
            /\ result.kind = "value" => result.val >= addr

C5_Witness ==
    /\ op = "u_align_up"
    /\ addr = MAX(bits) /\ align = 2
    /\ result = Panic(MsgOverflow)

\* C6: every method of the Align trait has the same outcome as the free
\* function of the same width, for every addr and align (invalid
\* alignments and overflowing inputs included).
C6_TraitAgreesWithFree ==
    /\ op = "Align::align_down" => result = u_align_down(bits, addr, align)
    /\ op = "Align::checked_align_up" =>
           result = u_checked_align_up(bits, addr, align)
    /\ op = "Align::align_up" => result = u_align_up(bits, addr, align)
    /\ op = "Align::is_aligned_to" =>
           result = u_is_aligned_to(bits, addr, align)

C6_Witness ==
    /\ op = "Align::align_up"
    /\ IsPow2(bits, align)
    /\ ~IsMultiple(addr, align)
    /\ MAX(bits) - addr < align
    /\ result.kind = "panic"

\* C7: for a power-of-two a, is_aligned_to(x, a), align_down(x, a) = x and
\* checked_align_up(x, a) = Some(x) agree, and each holds exactly when x is
\* a multiple of a.
C7_AlignedConditionsAgree ==
    (op \in IsAlignedToOps /\ IsPow2(bits, align)) =>
        LET multiple == IsMultiple(addr, align)
        IN  /\ result.kind = "bool"
            /\ (result.val = 1) <=> multiple
            /\ (u_align_down(bits, addr, align) = Value(addr)) <=> multiple
            /\ (u_checked_align_up(bits, addr, align) = Some(addr))
                   <=> multiple

C7_Witness ==
    /\ op = "u_is_aligned_to"
    /\ bits = U8_BITS /\ addr = 129 /\ align = 128
    /\ result = Bool(FALSE)

\* C8: idempotence: for a power-of-two a, rounding down the result of
\* align_down gives it again; rounding up the y of checked_align_up =
\* Some(y) gives Some(y) again, and so align_up of a successful align_up
\* returns the same value and does not panic.
C8_Idempotent ==
    IsPow2(bits, align) =>
        /\ (op \in AlignDownOps /\ result.kind = "value") =>
               u_align_down(bits, result.val, align) = Value(result.val)
        /\ (op \in CheckedAlignUpOps /\ result.kind = "Some") =>
               u_checked_align_up(bits, result.val, align) = Some(result.val)
        /\ (op \in AlignUpOps /\ result.kind = "value") =>
               u_align_up(bits, result.val, align) = Value(result.val)

C8_Witness ==
    /\ op = "u_checked_align_up"
    /\ IsPow2(bits, align)
    /\ result.kind = "Some"
    /\ result.val > addr

\* C9: for a power-of-two align and an addr that is a multiple of align,
\* checked_align_up returns Some(addr) and never None, also where
\* addr | (align - 1) = MAX and adding one would overflow.
C9_AlignedNeverOverflows ==
    (/\ op \in CheckedAlignUpOps
     /\ IsPow2(bits, align)
     /\ IsMultiple(addr, align)) =>
        result = Some(addr)

C9_Witness ==
    /\ op = "u_checked_align_up"
    /\ align = 2 /\ addr = MAX(bits) - 1
    /\ result = Some(MAX(bits) - 1)

\* C10: for a power-of-two align with checked_align_up = Some(u), the
\* distance u - align_down(addr, align) is 0 when addr is a multiple of
\* align and exactly align otherwise; so addr - align_down(addr, align) <
\* align and u - addr < align.
C10_RoundingDistance ==
    (/\ op \in CheckedAlignUpOps
     /\ IsPow2(bits, align)
     /\ result.kind = "Some") =>
        LET d == u_align_down(bits, addr, align).val
        IN  /\ IsMultiple(addr, align) => result.val - d = 0
            /\ ~IsMultiple(addr, align) => result.val - d = align
            /\ addr - d < align
            /\ result.val - addr < align

C10_Witness ==
    /\ op = "u_checked_align_up"
    /\ IsPow2(bits, align)
    /\ ~IsMultiple(addr, align)
    /\ result.kind = "Some"
    /\ result.val - u_align_down(bits, addr, align).val = align
====
